---- MODULE Spec2Model ----
(***************************************************************************)
(* CodeLens: import-to-file resolution and import-graph construction.      *)
(*                                                                         *)
(* Python strings are modelled as sequences of one-character strings, so   *)
(* that split, replace, dirname, basename, splitext, join, endswith and    *)
(* the substring test act on characters as they do in the program.         *)
(* Paths use the POSIX separator.                                          *)
(***************************************************************************)
EXTENDS Integers, Sequences, FiniteSets, TLC

VARIABLES
    pc,                 \* position of the running program
    import_name,        \* resolver call: the reference
    current_file_path,  \* resolver call: the importing file
    all_files,          \* the known-file set, as the sequence in which it iterates
    result,             \* resolver call: the returned value
    ast_data_list,      \* build_graph_edges: the inventories it is given
    edges,              \* build_graph_edges: the edge list built so far
    seen_edges,         \* build_graph_edges: the (source, target) pairs emitted
    doc_i,              \* build_graph_edges: index of the inventory in progress
    imp_j,              \* build_graph_edges: index of its import in progress
    resolver_calls,     \* the (reference, importing file, known files) of
                        \* every resolver call of the build in progress
    run,                \* number of the build_graph_edges call
    prev_edges,         \* what the previous call returned
    prev_files,         \* the iteration order the previous call saw
    python_files,       \* ast_parser: the files found, with their content
    file_i,             \* ast_parser: index of the file in progress
    successful,         \* ast_parser: files stored
    failed,             \* ast_parser: files that gave no inventory
    ast_data,           \* the stored inventories (collection ast_data)
    stored_edges,       \* the stored edges (collection edges)
    insert_edges,       \* bulk_insert_edges: the list it is given
    store_log           \* the bulk_insert_edges calls made: list and outcome

resolver_vars == <<import_name, current_file_path, result>>

build_vars == <<ast_data_list, all_files, edges, seen_edges, doc_i, imp_j,
                resolver_calls, run, prev_edges, prev_files>>

parser_vars == <<python_files, file_i, successful, failed, ast_data>>

store_vars == <<stored_edges, insert_edges, store_log>>

vars == <<pc, resolver_vars, build_vars, parser_vars, store_vars>>

-----------------------------------------------------------------------------
(* Python values *)

\* Python's None; no string equals it (strings hold one-character elements).
None == <<"None">>

\* os.sep
sep == "/"

Max(S) == CHOOSE x \in S : \A y \in S : y <= x

Min(S) == CHOOSE x \in S : \A y \in S : x <= y

\* s[:n]
Take(s, n) == SubSeq(s, 1, n)

\* s[n:]
Drop(s, n) == SubSeq(s, n + 1, Len(s))

\* s.rfind(c) + 1: the last position of character c, 0 when absent
RFind(s, c) ==
    LET I == {i \in 1..Len(s) : s[i] = c}
    IN  IF I = {} THEN 0 ELSE Max(I)

\* s.startswith(p)
startswith(s, p) == Len(p) <= Len(s) /\ Take(s, Len(p)) = p

\* s.endswith(p)
endswith(s, p) == Len(p) <= Len(s) /\ Drop(s, Len(s) - Len(p)) = p

\* p in s (substring)
contains(s, p) ==
    \E i \in 0..(Len(s) - Len(p)) : SubSeq(s, i + 1, i + Len(p)) = p

\* s.split(c) for a one-character separator
RECURSIVE split(_, _)
split(s, c) ==
    LET I == {i \in 1..Len(s) : s[i] = c}
    IN  IF I = {} THEN <<s>>
        ELSE <<Take(s, Min(I) - 1)>> \o split(Drop(s, Min(I)), c)

\* s.replace(a, b) for one-character a and b
replace(s, a, b) == [i \in 1..Len(s) |-> IF s[i] = a THEN b ELSE s[i]]

\* s.rstrip(c)
RECURSIVE rstrip(_, _)
rstrip(s, c) ==
    IF s # <<>> /\ s[Len(s)] = c THEN rstrip(Take(s, Len(s) - 1), c) ELSE s

\* posixpath.dirname
dirname(p) ==
    LET head == Take(p, RFind(p, sep))
    IN  IF head # <<>> /\ (\E i \in 1..Len(head) : head[i] # sep)
        THEN rstrip(head, sep)
        ELSE head

\* posixpath.basename
basename(p) == Drop(p, RFind(p, sep))

\* posixpath.splitext(p)[0]: a dot that only follows leading dots of the last
\* component starts no extension
splitext0(p) ==
    LET sepIndex == RFind(p, sep)
        dotIndex == RFind(p, ".")
    IN  IF dotIndex > sepIndex
           /\ (\E k \in (sepIndex + 1)..(dotIndex - 1) : p[k] # ".")
        THEN Take(p, dotIndex - 1)
        ELSE p

\* posixpath.join(a, b)
join2(a, b) ==
    IF startswith(b, <<sep>>) THEN b
    ELSE IF a = <<>> \/ endswith(a, <<sep>>) THEN a \o b
    ELSE a \o <<sep>> \o b

\* posixpath.join(*parts), parts non-empty
RECURSIVE join(_)
join(parts) ==
    IF Len(parts) = 1 THEN parts[1]
    ELSE join2(join(Take(parts, Len(parts) - 1)), parts[Len(parts)])

\* c.join(parts)
RECURSIVE strjoin(_, _)
strjoin(parts, c) ==
    IF parts = <<>> THEN <<>>
    ELSE IF Len(parts) = 1 THEN parts[1]
    ELSE parts[1] \o <<c>> \o strjoin(Tail(parts), c)

dot_py == <<".", "p", "y">>

init_py == <<"_", "_", "i", "n", "i", "t", "_", "_", ".", "p", "y">>

-----------------------------------------------------------------------------
(* graph_constructor.resolve_import_to_file *)

\* x in all_files, for the set given as its iteration sequence
InFiles(x, files) == \E i \in 1..Len(files) : files[i] = x

\* the candidate loop that follows the iteration order of the set
FirstKnown_in_set_order(possible_rel_paths, files) ==
    LET I == {i \in 1..Len(files) :
                \E k \in 1..Len(possible_rel_paths) : possible_rel_paths[k] = files[i]}
    IN  IF I = {} THEN None ELSE files[Min(I)]

\* the candidate loop that returns the last known candidate
FirstKnown_last_wins(possible_rel_paths, files) ==
    LET I == {i \in 1..Len(possible_rel_paths) : InFiles(possible_rel_paths[i], files)}
    IN  IF I = {} THEN None
        ELSE possible_rel_paths[CHOOSE i \in I : \A k \in I : k <= i]

\* the candidate loop that returns its first candidate without the lookup
FirstKnown_unchecked(possible_rel_paths, files) == possible_rel_paths[1]

\* "for rel_path in possible_rel_paths: if rel_path in all_files: return"
FirstKnown(possible_rel_paths, files) ==
    LET I == {i \in 1..Len(possible_rel_paths) : InFiles(possible_rel_paths[i], files)}
    IN  IF I = {} THEN None ELSE possible_rel_paths[Min(I)]

\* the number of leading empty parts
RECURSIVE LeadingEmpty(_)
LeadingEmpty(parts) ==
    IF parts # <<>> /\ parts[1] = <<>> THEN 1 + LeadingEmpty(Tail(parts)) ELSE 0

\* the file-name test of the two basename scans
NameMatches(file_path, name) ==
    LET filename == basename(file_path)
    IN  filename = name \o dot_py \/ splitext0(filename) = name

\* "for file_path in all_files: if <name test>: return file_path"
ScanName(files, name) ==
    LET I == {i \in 1..Len(files) : NameMatches(files[i], name)}
    IN  IF I = {} THEN None ELSE files[Min(I)]

\* the test of the path-component scan
PathMatches(file_path, parts) ==
    LET normalized_import == strjoin(parts, sep)
        normalized_file == replace(splitext0(file_path), sep, sep)
    IN  endswith(normalized_file, normalized_import)
            \/ contains(normalized_file, normalized_import)

ScanPath(files, parts) ==
    LET I == {i \in 1..Len(files) : PathMatches(files[i], parts)}
    IN  IF I = {} THEN None ELSE files[Min(I)]

\* the test without the last allowed level
AboveRoot_off_by_one(dot_count, dir_parts) == dot_count > Len(dir_parts) + 1

\* "if dot_count > len(dir_parts): return None"
AboveRoot(dot_count, dir_parts) == dot_count > Len(dir_parts)

\* the slice that ascends once per dot: dir_parts[:-dot_count]
AscendedDir_once_per_dot(dir_parts, dot_count) ==
    Take(dir_parts, Max({0, Len(dir_parts) - dot_count}))

\* "dir_parts[:-(dot_count-1)] if dot_count > 1 else dir_parts"
AscendedDir(dir_parts, dot_count) ==
    IF dot_count > 1
    THEN Take(dir_parts, Max({0, Len(dir_parts) - (dot_count - 1)}))
    ELSE dir_parts

\* the branch that takes the first named segment as the module name
ResolveRelative_first_segment(ref, cur, files) ==
    LET current_dir == IF cur # <<>> THEN dirname(cur) ELSE <<>>
        parts == split(ref, ".")
        dot_count == LeadingEmpty(parts)
        module_name ==
            IF dot_count < Len(parts) THEN parts[dot_count + 1] ELSE <<>>
        dir_parts == IF current_dir # <<>> THEN split(current_dir, sep) ELSE <<>>
        target_dir_parts == AscendedDir(dir_parts, dot_count)
        possible_rel_paths ==
            << IF target_dir_parts # <<>>
               THEN join(target_dir_parts \o <<module_name \o dot_py>>)
               ELSE module_name \o dot_py,
               IF target_dir_parts # <<>>
               THEN join(target_dir_parts \o <<module_name, init_py>>)
               ELSE join(<<module_name, init_py>>) >>
    IN  IF AboveRoot(dot_count, dir_parts) THEN None
        ELSE FirstKnown(possible_rel_paths, files)

\* the branch for references that start with a dot
ResolveRelative(ref, cur, files) ==
    LET current_dir == IF cur # <<>> THEN dirname(cur) ELSE <<>>
        parts == split(ref, ".")
        dot_count == LeadingEmpty(parts)
        module_name ==
            IF parts[Len(parts)] # <<>> THEN parts[Len(parts)]
            ELSE IF Len(parts) > 1 THEN parts[Len(parts) - 1]
            ELSE <<>>
        dir_parts == IF current_dir # <<>> THEN split(current_dir, sep) ELSE <<>>
        target_dir_parts == AscendedDir(dir_parts, dot_count)
        possible_rel_paths ==
            << IF target_dir_parts # <<>>
               THEN join(target_dir_parts \o <<module_name \o dot_py>>)
               ELSE module_name \o dot_py,
               IF target_dir_parts # <<>>
               THEN join(target_dir_parts \o <<module_name, init_py>>)
               ELSE join(<<module_name, init_py>>) >>
    IN  IF AboveRoot(dot_count, dir_parts) THEN None
        ELSE FirstKnown(possible_rel_paths, files)

\* the exact candidates without the package file
ExactCandidates_no_init(dotted_path) == <<dotted_path \o dot_py>>

\* the candidates of the exact match: the module file, then the package file
ExactCandidates(dotted_path) ==
    <<dotted_path \o dot_py, join(<<dotted_path, init_py>>)>>

\* the branch that scans for the last segment before the first one
ResolveAbsolute_last_segment_first(ref, files) ==
    LET parts == split(ref, ".")
        dotted_path == replace(ref, ".", sep)
        exact == FirstKnown(ExactCandidates(dotted_path), files)
        first == ScanName(files, parts[1])
        last == IF Len(parts) > 1 THEN ScanName(files, parts[Len(parts)]) ELSE None
        path == IF Len(parts) > 1 THEN ScanPath(files, parts) ELSE None
    IN  IF exact # None THEN exact
        ELSE IF last # None THEN last
        ELSE IF first # None THEN first
        ELSE path

\* the branch that scans for the first segment before the exact match
ResolveAbsolute_scan_first(ref, files) ==
    LET parts == split(ref, ".")
        dotted_path == replace(ref, ".", sep)
        exact == FirstKnown(ExactCandidates(dotted_path), files)
        first == ScanName(files, parts[1])
        last == IF Len(parts) > 1 THEN ScanName(files, parts[Len(parts)]) ELSE None
        path == IF Len(parts) > 1 THEN ScanPath(files, parts) ELSE None
    IN  IF first # None THEN first
        ELSE IF exact # None THEN exact
        ELSE IF last # None THEN last
        ELSE path

\* the branch for references that do not start with a dot
ResolveAbsolute(ref, files) ==
    LET parts == split(ref, ".")
        dotted_path == replace(ref, ".", sep)
        exact == FirstKnown(ExactCandidates(dotted_path), files)
        first == ScanName(files, parts[1])
        last == IF Len(parts) > 1 THEN ScanName(files, parts[Len(parts)]) ELSE None
        path == IF Len(parts) > 1 THEN ScanPath(files, parts) ELSE None
    IN  IF exact # None THEN exact
        ELSE IF first # None THEN first
        ELSE IF last # None THEN last
        ELSE path

resolve_import_to_file(ref, cur, files) ==
    IF startswith(ref, <<".">>)
    THEN ResolveRelative(ref, cur, files)
    ELSE ResolveAbsolute(ref, files)

-----------------------------------------------------------------------------
(* graph_constructor.build_graph_edges *)

stdlib_modules ==
    { <<"s", "y", "s">>,
      <<"o", "s">>,
      <<"j", "s", "o", "n">>,
      <<"d", "a", "t", "e", "t", "i", "m", "e">>,
      <<"c", "o", "l", "l", "e", "c", "t", "i", "o", "n", "s">>,
      <<"i", "t", "e", "r", "t", "o", "o", "l", "s">>,
      <<"f", "u", "n", "c", "t", "o", "o", "l", "s">>,
      <<"t", "y", "p", "i", "n", "g">>,
      <<"a", "b", "c">>,
      <<"p", "a", "t", "h", "l", "i", "b">>,
      <<"h", "a", "s", "h", "l", "i", "b">>,
      <<"u", "u", "i", "d">>,
      <<"r", "a", "n", "d", "o", "m">>,
      <<"m", "a", "t", "h">>,
      <<"r", "e">>,
      <<"s", "t", "r", "i", "n", "g">>,
      <<"i", "o">>,
      <<"p", "i", "c", "k", "l", "e">>,
      <<"c", "o", "p", "y">>,
      <<"e", "n", "u", "m">>,
      <<"d", "a", "t", "a", "c", "l", "a", "s", "s", "e", "s">> }

third_party_modules ==
    { <<"n", "u", "m", "p", "y">>,
      <<"p", "a", "n", "d", "a", "s">>,
      <<"r", "e", "q", "u", "e", "s", "t", "s">>,
      <<"f", "l", "a", "s", "k">>,
      <<"d", "j", "a", "n", "g", "o">>,
      <<"p", "y", "m", "o", "n", "g", "o">>,
      <<"s", "q", "l", "a", "l", "c", "h", "e", "m", "y">>,
      <<"p", "y", "t", "e", "s", "t">>,
      <<"u", "n", "i", "t", "t", "e", "s", "t">>,
      <<"s", "e", "t", "u", "p", "t", "o", "o", "l", "s">>,
      <<"w", "h", "e", "e", "l">>,
      <<"p", "i", "p">>,
      <<"c", "o", "n", "d", "a">> }

\* the skip that tests every segment of the reference
is_external_any_segment(ref) ==
    \E k \in 1..Len(split(ref, ".")) :
        split(ref, ".")[k] \in (stdlib_modules \cup third_party_modules)

\* the skip that tests the third-party set alone
is_external_third_party_only(ref) ==
    split(ref, ".")[1] \in third_party_modules

\* "module_base in stdlib_modules or module_base in third_party_modules"
is_external(ref) ==
    LET module_base == split(ref, ".")[1]
    IN  module_base \in stdlib_modules \/ module_base \in third_party_modules

\* doc.get('filepath', doc.get('filename', ''))
DocPath(doc) ==
    IF "filepath" \in DOMAIN doc THEN doc.filepath
    ELSE IF "filename" \in DOMAIN doc THEN doc.filename
    ELSE <<>>

\* doc.get('imports', [])
DocImports(doc) == IF "imports" \in DOMAIN doc THEN doc.imports ELSE <<>>

\* the set filled from every inventory but the last one
KnownPaths_without_last(list) ==
    {DocPath(list[i]) : i \in {k \in 1..(Len(list) - 1) : DocPath(list[k]) # <<>>}}

\* the paths added to all_files: the non-empty ones
KnownPaths(list) ==
    {DocPath(list[i]) : i \in {k \in 1..Len(list) : DocPath(list[k]) # <<>>}}

\* the sequences that list a finite set once each: its iteration orders
Orders(S) ==
    {f \in [1..Cardinality(S) -> S] : \A x \in S : \E i \in DOMAIN f : f[i] = x}

\* the test without the comparison with the importing file
IsEdgeTarget_allows_self(target_file, source_file) ==
    target_file # None /\ target_file # <<>>

\* "if target_file and target_file != source_file"
IsEdgeTarget(target_file, source_file) ==
    target_file # None /\ target_file # <<>> /\ target_file # source_file

\* the pair taken from the full paths
edge_key_full_paths(source_file, target_file) == <<source_file, target_file>>

\* the pair an edge is keyed and stored by
edge_key(source_file, target_file) ==
    <<basename(source_file), basename(target_file)>>

\* the loop body that appends without looking at seen_edges
ProcessImport_no_dedup(st, source_file, ref, files) ==
    IF is_external(ref) THEN st
    ELSE
        LET target_file == resolve_import_to_file(ref, source_file, files)
            key == edge_key(source_file, target_file)
        IN  IF IsEdgeTarget(target_file, source_file)
            THEN [edges |-> Append(st.edges, [source |-> key[1], target |-> key[2]]),
                  seen_edges |-> st.seen_edges \cup {key}]
            ELSE st

\* the loop body that puts a new edge at the front of the list
ProcessImport_prepends(st, source_file, ref, files) ==
    IF is_external(ref) THEN st
    ELSE
        LET target_file == resolve_import_to_file(ref, source_file, files)
            key == edge_key(source_file, target_file)
        IN  IF IsEdgeTarget(target_file, source_file) /\ key \notin st.seen_edges
            THEN [edges |-> <<[source |-> key[1], target |-> key[2]]>> \o st.edges,
                  seen_edges |-> st.seen_edges \cup {key}]
            ELSE st

\* the body of the loop over one inventory's imports, on (edges, seen_edges)
ProcessImport(st, source_file, ref, files) ==
    IF is_external(ref) THEN st
    ELSE
        LET target_file == resolve_import_to_file(ref, source_file, files)
            key == edge_key(source_file, target_file)
        IN  IF IsEdgeTarget(target_file, source_file) /\ key \notin st.seen_edges
            THEN [edges |-> Append(st.edges, [source |-> key[1], target |-> key[2]]),
                  seen_edges |-> st.seen_edges \cup {key}]
            ELSE st

\* the loops pass over an inventory with an empty path or without imports
HasWork(list, i) == DocPath(list[i]) # <<>> /\ DocImports(list[i]) # <<>>

\* the first inventory at or after index i whose imports are looped over
NextDoc(list, i) ==
    LET I == {k \in i..Len(list) : HasWork(list, k)}
    IN  IF I = {} THEN Len(list) + 1 ELSE Min(I)

\* the inner loop over the imports from index j on
RECURSIVE ProcessImports(_, _, _, _, _)
ProcessImports(st, source_file, imports, j, files) ==
    IF j > Len(imports) THEN st
    ELSE ProcessImports(ProcessImport(st, source_file, imports[j], files),
                        source_file, imports, j + 1, files)

\* the outer loop over the inventories from index i on
RECURSIVE ProcessDocs(_, _, _, _)
ProcessDocs(st, list, i, files) ==
    IF i > Len(list) THEN st
    ELSE ProcessDocs(IF DocPath(list[i]) = <<>> THEN st
                     ELSE ProcessImports(st, DocPath(list[i]), DocImports(list[i]),
                                         1, files),
                     list, i + 1, files)

\* build_graph_edges as a function of the inventory list, its known-file set
\* iterating as files does
build_graph_edges(list, files) ==
    ProcessDocs([edges |-> <<>>, seen_edges |-> {}], list, 1, files).edges

\* the entry that keeps the seen_edges of the call before
BuildStart_keeps_seen ==
    /\ pc = "build"
    /\ edges' = <<>>
    /\ seen_edges' = seen_edges
    /\ all_files' \in Orders(KnownPaths(ast_data_list))
    /\ doc_i' = NextDoc(ast_data_list, 1)
    /\ imp_j' = 1
    /\ resolver_calls' = {}
    /\ pc' = "loop"
    /\ UNCHANGED <<ast_data_list, run, prev_edges, prev_files, resolver_vars, parser_vars, store_vars>>

\* build_graph_edges is entered: edges and seen_edges are fresh, all_files is
\* filled from the inventories and iterates in some order from then on
BuildStart ==
    /\ pc = "build"
    /\ edges' = <<>>
    /\ seen_edges' = {}
    /\ all_files' \in Orders(KnownPaths(ast_data_list))
    /\ doc_i' = NextDoc(ast_data_list, 1)
    /\ imp_j' = 1
    /\ resolver_calls' = {}
    /\ pc' = "loop"
    /\ UNCHANGED <<ast_data_list, run, prev_edges, prev_files, resolver_vars, parser_vars, store_vars>>

\* the pass that leaves both loops when the resolver returns None
BuildStep_stops_on_unresolved ==
    /\ pc = "loop"
    /\ doc_i <= Len(ast_data_list)
    /\ LET doc == ast_data_list[doc_i]
           source_file == DocPath(doc)
           ref == DocImports(doc)[imp_j]
       IN  /\ \E st \in {ProcessImport([edges |-> edges, seen_edges |-> seen_edges],
                                       source_file, ref, all_files)} :
                /\ edges' = st.edges
                /\ seen_edges' = st.seen_edges
           /\ resolver_calls' =
                IF is_external(ref) THEN resolver_calls
                ELSE resolver_calls \cup
                        {[import_name |-> ref, current_file_path |-> source_file,
                          all_files |-> all_files]}
           /\ IF ~is_external(ref)
                 /\ resolve_import_to_file(ref, source_file, all_files) = None
              THEN doc_i' = Len(ast_data_list) + 1 /\ imp_j' = 1
              ELSE IF imp_j < Len(DocImports(doc))
                   THEN doc_i' = doc_i /\ imp_j' = imp_j + 1
                   ELSE doc_i' = NextDoc(ast_data_list, doc_i + 1) /\ imp_j' = 1
    /\ UNCHANGED <<pc, ast_data_list, all_files, run, prev_edges, prev_files,
                   resolver_vars, parser_vars, store_vars>>

\* one pass of the inner loop
BuildStep ==
    /\ pc = "loop"
    /\ doc_i <= Len(ast_data_list)
    /\ LET doc == ast_data_list[doc_i]
           source_file == DocPath(doc)
           ref == DocImports(doc)[imp_j]
       IN  /\ \E st \in {ProcessImport([edges |-> edges, seen_edges |-> seen_edges],
                                       source_file, ref, all_files)} :
                /\ edges' = st.edges
                /\ seen_edges' = st.seen_edges
           /\ resolver_calls' =
                IF is_external(ref) THEN resolver_calls
                ELSE resolver_calls \cup
                        {[import_name |-> ref, current_file_path |-> source_file,
                          all_files |-> all_files]}
           /\ IF imp_j < Len(DocImports(doc))
              THEN doc_i' = doc_i /\ imp_j' = imp_j + 1
              ELSE doc_i' = NextDoc(ast_data_list, doc_i + 1) /\ imp_j' = 1
    /\ UNCHANGED <<pc, ast_data_list, all_files, run, prev_edges, prev_files,
                   resolver_vars, parser_vars, store_vars>>

\* "return edges"
BuildReturn ==
    /\ pc = "loop"
    /\ doc_i > Len(ast_data_list)
    /\ pc' = "built"
    /\ UNCHANGED <<resolver_vars, build_vars, parser_vars, store_vars>>

\* build_graph_edges is called a second time on the same inventory list
Rerun ==
    /\ pc = "built"
    /\ run = "first"
    /\ run' = "second"
    /\ prev_edges' = edges
    /\ prev_files' = all_files
    /\ pc' = "build"
    /\ UNCHANGED <<ast_data_list, all_files, edges, seen_edges, doc_i, imp_j,
                   resolver_calls, resolver_vars, parser_vars, store_vars>>

-----------------------------------------------------------------------------
(* The inputs *)

\* "app/main.py"
app_main_py == <<"a", "p", "p", "/", "m", "a", "i", "n", ".", "p", "y">>

\* "app/utils.py"
app_utils_py == <<"a", "p", "p", "/", "u", "t", "i", "l", "s", ".", "p", "y">>

\* "lib/utils.py"
lib_utils_py == <<"l", "i", "b", "/", "u", "t", "i", "l", "s", ".", "p", "y">>

\* "os.py"
os_py == <<"o", "s", ".", "p", "y">>

\* "app.utils"
r_app_utils == <<"a", "p", "p", ".", "u", "t", "i", "l", "s">>

\* "os"
r_os == <<"o", "s">>

\* "utils"
r_utils == <<"u", "t", "i", "l", "s">>

MaxDocs == 2

MaxImports == 2

PathPool == {app_main_py, app_utils_py, lib_utils_py, os_py}

RefPool == {r_app_utils, r_os, r_utils}

\* the import lists of exactly n references
ImportLists(n) == [1..n -> RefPool]

\* an inventory as ast_parser stores it
Inventory(path, imports) ==
    [filename |-> basename(path), filepath |-> path, imports |-> imports]

\* the number of import references a list of inventories holds
RECURSIVE TotalImports(_)
TotalImports(list) ==
    IF list = <<>> THEN 0
    ELSE Len(DocImports(list[1])) + TotalImports(Tail(list))

InitResolver == import_name = <<>> /\ current_file_path = <<>> /\ result = None

InitParser ==
    /\ python_files = <<>>
    /\ file_i = 1
    /\ successful = 0
    /\ failed = 0

\* the edges collection before any run, and no bulk_insert_edges call made
InitStore ==
    /\ stored_edges = <<>>
    /\ insert_edges = <<>>
    /\ store_log = <<>>

InitBuilder ==
    /\ ast_data_list = <<>>
    /\ all_files = <<>>
    /\ edges = <<>>
    /\ seen_edges = {}
    /\ doc_i = 1
    /\ imp_j = 1
    /\ resolver_calls = {}
    /\ run = "first"
    /\ prev_edges = <<>>
    /\ prev_files = <<>>

\* an inventory is inserted into the collection ast_data
InsertInventory ==
    /\ pc = "input"
    /\ Len(ast_data) < MaxDocs
    /\ \E p \in PathPool, k \in 0..(MaxImports - TotalImports(ast_data)) :
          \E imps \in ImportLists(k) :
              ast_data' = Append(ast_data, Inventory(p, imps))
    /\ UNCHANGED <<pc, resolver_vars, build_vars, python_files, file_i,
                   successful, failed, store_vars>>

\* build_graph_edges is called on the inventories of the collection
CallBuild ==
    /\ pc = "input"
    /\ ast_data_list' = ast_data
    /\ pc' = "build"
    /\ UNCHANGED <<all_files, edges, seen_edges, doc_i, imp_j, resolver_calls,
                   run, prev_edges, prev_files, resolver_vars, parser_vars, store_vars>>

\* an empty collection, filled with any inventories, then build_graph_edges
InitBuild ==
    /\ pc = "input"
    /\ ast_data = <<>>
    /\ InitBuilder
    /\ InitResolver
    /\ InitParser
    /\ InitStore

NextBuild == InsertInventory \/ CallBuild \/ BuildStart \/ BuildStep \/ BuildReturn

SpecBuild == InitBuild /\ [][NextBuild]_vars

\* the same, with build_graph_edges called twice on the inventory list
NextTwice == NextBuild \/ Rerun

SpecTwice == InitBuild /\ [][NextTwice]_vars

\* inventories of a package whose two modules import each other, one of them
\* named like a standard-library module
app_os_py == <<"a", "p", "p", "/", "o", "s", ".", "p", "y">>

r_app_os == <<"a", "p", "p", ".", "o", "s">>

r_app_requests == <<"a", "p", "p", ".", "r", "e", "q", "u", "e", "s", "t", "s">>

r_dot_os == <<".", "o", "s">>

r_app_main == <<"a", "p", "p", ".", "m", "a", "i", "n">>

PackagePathPool == {app_main_py, app_os_py}

PackageRefPool == {r_app_os, r_app_requests, r_dot_os, r_app_main}

\* an inventory of the package is inserted into the collection ast_data
InsertPackageInventory ==
    /\ pc = "input"
    /\ Len(ast_data) < MaxDocs
    /\ \E p \in PackagePathPool, k \in 0..(MaxImports - TotalImports(ast_data)) :
          \E imps \in [1..k -> PackageRefPool] :
              ast_data' = Append(ast_data, Inventory(p, imps))
    /\ UNCHANGED <<pc, resolver_vars, build_vars, python_files, file_i,
                   successful, failed, store_vars>>

NextPackage ==
    InsertPackageInventory \/ CallBuild \/ BuildStart \/ BuildStep \/ BuildReturn

SpecPackage == InitBuild /\ [][NextPackage]_vars

-----------------------------------------------------------------------------
(* Properties of build_graph_edges *)

main_py == <<"m", "a", "i", "n", ".", "p", "y">>

utils_py == <<"u", "t", "i", "l", "s", ".", "p", "y">>

\* the (source, target) pairs of an edge list
Pairs(es) == {<<es[i].source, es[i].target>> : i \in 1..Len(es)}

\* positions (inventory, import) the loops visit
Positions(list) ==
    {<<i, j>> \in (1..Len(list)) \X (1..MaxImports + 1) :
        DocPath(list[i]) # <<>> /\ j <= Len(DocImports(list[i]))}

\* the first dot-separated segment, read off the characters
FirstSegment(ref) ==
    LET I == {i \in 1..Len(ref) : ref[i] = "."}
    IN  IF I = {} THEN ref ELSE SubSeq(ref, 1, Min(I) - 1)

InFilterSets(ref) == FirstSegment(ref) \in (stdlib_modules \cup third_party_modules)

\* the pair the import at position pos gives, None when it gives no edge
PairAt(list, pos, files) ==
    LET source_file == DocPath(list[pos[1]])
        ref == DocImports(list[pos[1]])[pos[2]]
        target_file == resolve_import_to_file(ref, source_file, files)
    IN  IF ~InFilterSets(ref) /\ target_file # None /\ target_file # source_file
        THEN <<basename(source_file), basename(target_file)>>
        ELSE None

\* the list with the import at position pos removed
WithoutImport(list, pos) ==
    [list EXCEPT ![pos[1]].imports =
        SubSeq(@, 1, pos[2] - 1) \o SubSeq(@, pos[2] + 1, Len(@))]

\* C1: no edge of the output of build_graph_edges has its source equal to its
\* target, as emitted (basenames), also when the importing file and the
\* resolved file are different paths in different directories.
C1_NoSelfEdges == \A i \in 1..Len(edges) : edges[i].source # edges[i].target

\* C2: the output holds at most one edge per (source, target) pair: an import
\* that yields a pair already seen is dropped, seen_edges is the set of the
\* pairs this call emitted, and it is empty when a call starts its loops.
C2_NoDuplicateEdges ==
    /\ \A i, k \in 1..Len(edges) : i # k => edges[i] # edges[k]
    /\ seen_edges = Pairs(edges)
    /\ (pc = "loop" /\ doc_i = NextDoc(ast_data_list, 1) /\ imp_j = 1)
            => (seen_edges = {} /\ edges = <<>>)

\* C2's case: in a second call, two imports gave the same pair, emitted once
C2_Witness ==
    /\ pc = "built" /\ run = "second"
    /\ \E p, q \in Positions(ast_data_list) :
          /\ p # q
          /\ PairAt(ast_data_list, p, all_files) # None
          /\ PairAt(ast_data_list, p, all_files) = PairAt(ast_data_list, q, all_files)
    /\ Len(edges) = 1

\* C3: a reference whose first segment is in the stdlib or the third-party set
\* never reaches the resolver, and the output is what it is with that
\* reference removed from its inventory, also when a file of that name is known.
C3_ExternalSuppressed ==
    /\ \A c \in resolver_calls : ~InFilterSets(c.import_name)
    /\ pc = "built" =>
          \A pos \in Positions(ast_data_list) :
              InFilterSets(DocImports(ast_data_list[pos[1]])[pos[2]]) =>
                  edges = build_graph_edges(WithoutImport(ast_data_list, pos), all_files)

\* C3's case: os.py is a known file, an inventory imports os, edges came out
C3_Witness ==
    /\ pc = "built"
    /\ InFiles(os_py, all_files)
    /\ \E pos \in Positions(ast_data_list) :
          DocImports(ast_data_list[pos[1]])[pos[2]] = r_os
    /\ edges # <<>>

\* the inventories of the end-to-end scenario
C4_Scenario ==
    << Inventory(app_main_py, <<r_app_utils, r_os>>), Inventory(app_utils_py, <<>>) >>

\* C4: for [{app/main.py, [app.utils, os]}, {app/utils.py, []}] the output is
\* exactly [{source: main.py, target: utils.py}].
C4_EndToEndScenario ==
    (pc = "built" /\ ast_data_list = C4_Scenario)
        => edges = <<[source |-> main_py, target |-> utils_py]>>

\* C4's case: build_graph_edges returned on the scenario
C4_Witness == pc = "built" /\ ast_data_list = C4_Scenario

\* C5: a second call on the same inventory list whose known-file set iterates
\* in the same order returns the same edge list, pairs and order.
C5_SameOutputTwice ==
    (pc = "built" /\ run = "second" /\ all_files = prev_files) => edges = prev_edges

\* C5's case: the second call returned edges over a set of several files
C5_Witness ==
    /\ pc = "built" /\ run = "second" /\ all_files = prev_files
    /\ Len(all_files) >= 2
    /\ edges # <<>>

\* with another iteration order the second call can return other edges
C5_OrderMatters ==
    (pc = "built" /\ run = "second") => edges = prev_edges

\* the basenames of the known files
KnownBasenames(files) == {basename(files[i]) : i \in 1..Len(files)}

\* C11 as stated: the source and the target of every emitted edge are members
\* of the file-path set built from the inventories' paths.
C11_EndpointsAreKnownPaths ==
    \A i \in 1..Len(edges) :
        InFiles(edges[i].source, all_files) /\ InFiles(edges[i].target, all_files)

\* C11, amended: the source and the target of every emitted edge are the
\* basenames of members of the file-path set built from the inventories' paths.
C11_EndpointsAreKnownBasenames ==
    \A i \in 1..Len(edges) :
        /\ edges[i].source \in KnownBasenames(all_files)
        /\ edges[i].target \in KnownBasenames(all_files)

\* C11's case: an edge between files in a directory, neither value a known path
C11_Witness ==
    /\ pc = "built"
    /\ edges = <<[source |-> main_py, target |-> utils_py]>>
    /\ ~InFiles(main_py, all_files) /\ ~InFiles(utils_py, all_files)
    /\ InFiles(app_main_py, all_files)

\* C12: every emitted edge is (basename(P), basename(T)) for an inventory path
\* P and a known file T other than P that the resolver returns for one of P's
\* imports outside the filter sets; no emitted value holds a directory part.
C12_EdgesAreBasenamePairs ==
    \A i \in 1..Len(edges) :
        /\ \E pos \in Positions(ast_data_list) :
              LET P == DocPath(ast_data_list[pos[1]])
                  ref == DocImports(ast_data_list[pos[1]])[pos[2]]
                  T == resolve_import_to_file(ref, P, all_files)
              IN  /\ ~InFilterSets(ref)
                  /\ InFiles(T, all_files)
                  /\ T # P
                  /\ edges[i] = [source |-> basename(P), target |-> basename(T)]
        /\ \A k \in 1..Len(edges[i].source) : edges[i].source[k] # sep
        /\ \A k \in 1..Len(edges[i].target) : edges[i].target[k] # sep

\* C12 as stated: the edges are such basename pairs, and no emitted value is
\* a full repo-relative path of the known-file set.
C12_NoFullPathInEdges ==
    \A i \in 1..Len(edges) :
        /\ edges[i].source \in KnownBasenames(all_files)
        /\ edges[i].target \in KnownBasenames(all_files)
        /\ ~InFiles(edges[i].source, all_files)
        /\ ~InFiles(edges[i].target, all_files)

\* C12's case: an import resolved to its own importing file, another to a
\* different file, and only the second gave an edge
C12_Witness ==
    /\ pc = "built"
    /\ \E pos \in Positions(ast_data_list) :
          LET P == DocPath(ast_data_list[pos[1]])
          IN  /\ RFind(P, sep) > 0
              /\ resolve_import_to_file(DocImports(ast_data_list[pos[1]])[pos[2]],
                                        P, all_files) = P
    /\ Len(edges) = 1

\* the pairs the imports give, in the order the loops visit them from (i, j)
RECURSIVE PairsFrom(_, _, _, _)
PairsFrom(list, i, j, files) ==
    IF i > Len(list) THEN <<>>
    ELSE IF DocPath(list[i]) = <<>> \/ j > Len(DocImports(list[i]))
         THEN PairsFrom(list, i + 1, 1, files)
         ELSE LET pair == PairAt(list, <<i, j>>, files)
              IN  (IF pair = None THEN <<>> ELSE <<pair>>)
                      \o PairsFrom(list, i, j + 1, files)

\* a sequence cut down to the first occurrence of each of its elements
RECURSIVE FirstOccurrences(_)
FirstOccurrences(s) ==
    IF s = <<>> THEN <<>>
    ELSE LET front == FirstOccurrences(Take(s, Len(s) - 1))
         IN  IF \E k \in 1..Len(front) : front[k] = s[Len(s)]
             THEN front
             ELSE Append(front, s[Len(s)])

\* C13: the returned list is in insertion order: the first occurrences of the
\* emitted pairs, walking the inventories and each one's imports in list order.
C13_InsertionOrder ==
    pc = "built" =>
        [i \in 1..Len(edges) |-> <<edges[i].source, edges[i].target>>]
            = FirstOccurrences(PairsFrom(ast_data_list, 1, 1, all_files))

\* C13's case: two edges, returned in the order met and not in sorted order
C13_Witness ==
    /\ pc = "built"
    /\ edges = << [source |-> os_py, target |-> main_py],
                  [source |-> main_py, target |-> os_py] >>

-----------------------------------------------------------------------------
\* the reference at a position, and the file that imports it
RefAt(list, pos) == DocImports(list[pos[1]])[pos[2]]

ImporterAt(list, pos) == DocPath(list[pos[1]])

\* an internal reference for which the resolver finds no file
UnresolvedAt(list, pos, files) ==
    /\ ~InFilterSets(RefAt(list, pos))
    /\ resolve_import_to_file(RefAt(list, pos), ImporterAt(list, pos), files) = None

\* position q is visited after position p
Later(p, q) == q[1] > p[1] \/ (q[1] = p[1] /\ q[2] > p[2])

\* the resolver was called for the reference at the position
CalledAt(list, pos, files) ==
    [import_name |-> RefAt(list, pos), current_file_path |-> ImporterAt(list, pos),
     all_files |-> files] \in resolver_calls

\* C17: an internal reference that no candidate file matches is silent: the
\* resolver returns None for it, the output is what it is without that
\* reference, and every later import of the inventory and of the later
\* inventories is still processed (resolved when internal, its edge emitted).
C17_UnresolvedIsSilent ==
    pc = "built" =>
        \A p \in Positions(ast_data_list) :
            UnresolvedAt(ast_data_list, p, all_files) =>
                /\ CalledAt(ast_data_list, p, all_files)
                /\ edges = build_graph_edges(WithoutImport(ast_data_list, p), all_files)
                /\ \A q \in Positions(ast_data_list) :
                      Later(p, q) =>
                          /\ ~InFilterSets(RefAt(ast_data_list, q))
                                => CalledAt(ast_data_list, q, all_files)
                          /\ PairAt(ast_data_list, q, all_files) # None
                                => PairAt(ast_data_list, q, all_files) \in Pairs(edges)

\* C17's case: app.requests found no file, and the import after it gave an edge
C17_Witness ==
    /\ pc = "built"
    /\ \E p, q \in Positions(ast_data_list) :
          /\ UnresolvedAt(ast_data_list, p, all_files)
          /\ RefAt(ast_data_list, p) = r_app_requests
          /\ Later(p, q)
          /\ PairAt(ast_data_list, q, all_files) # None
    /\ Len(edges) = 1

\* C18: the filter reads only the first dot-separated segment: app.os and
\* app.requests, whose later segment is in a set, are passed to the resolver,
\* and the relative reference .os, whose first segment is empty, is never
\* suppressed.
C18_FirstSegmentOnly ==
    /\ \A ref \in {r_app_os, r_app_requests, r_dot_os} : ~is_external(ref)
    /\ pc = "built" =>
          \A p \in Positions(ast_data_list) :
              RefAt(ast_data_list, p) \in {r_app_os, r_app_requests, r_dot_os} =>
                  /\ CalledAt(ast_data_list, p, all_files)
                  /\ PairAt(ast_data_list, p, all_files) # None
                        => PairAt(ast_data_list, p, all_files) \in Pairs(edges)

\* C18's case: app/main.py imports app.os and .os with app/os.py known, both
\* reached the resolver and the edge to os.py came out
C18_Witness ==
    /\ pc = "built"
    /\ \E i \in 1..Len(ast_data_list) :
          /\ DocPath(ast_data_list[i]) = app_main_py
          /\ DocImports(ast_data_list[i]) = <<r_app_os, r_dot_os>>
          /\ CalledAt(ast_data_list, <<i, 1>>, all_files)
          /\ CalledAt(ast_data_list, <<i, 2>>, all_files)
    /\ edges = <<[source |-> main_py, target |-> os_py]>>

-----------------------------------------------------------------------------
\* the non-empty paths of all the inventories
AllInventoryPaths(list) == {list[i].filepath : i \in 1..Len(list)} \ {<<>>}

\* the elements of a sequence
Elements(s) == {s[i] : i \in 1..Len(s)}

\* C26: the known-file set is complete before the first resolution and never
\* changes: while the loops run and after them it is the set of the non-empty
\* paths of all the inventories, and every call of the resolver received
\* exactly it, so that an import of an earlier inventory can resolve to the
\* path of a later one.
C26_KnownFilesFixed ==
    /\ pc \in {"loop", "built"} =>
          Elements(all_files) = AllInventoryPaths(ast_data_list)
    /\ \A c \in resolver_calls :
          /\ c.all_files = all_files
          /\ Elements(c.all_files) = AllInventoryPaths(ast_data_list)

\* C26's case: the import of the first inventory resolved to the path of the
\* second one
C26_Witness ==
    /\ pc = "built"
    /\ ast_data_list = <<Inventory(app_main_py, <<r_app_os>>), Inventory(app_os_py, <<>>)>>
    /\ CalledAt(ast_data_list, <<1, 1>>, all_files)
    /\ edges = <<[source |-> main_py, target |-> os_py]>>

-----------------------------------------------------------------------------
(* bulk_insert_edges and the edges collection *)

\* the edge lists bulk_insert_edges is given
e_main_utils == [source |-> main_py, target |-> utils_py]

e_utils_utils == [source |-> utils_py, target |-> utils_py]

StoreEdgePool ==
    {<<>>, <<e_main_utils>>, <<e_utils_utils>>, <<e_main_utils, e_utils_utils>>}

MaxCalls == 3

\* the call that has ended, added to the calls made
Logged(list, outcome) == Append(store_log, [edges |-> list, outcome |-> outcome])

\* "if not edges: print(...); return", otherwise the call goes on to the store
BulkInsertCall ==
    /\ pc = "store"
    /\ Len(store_log) < MaxCalls
    /\ \E list \in StoreEdgePool :
          IF list = <<>>
          THEN /\ store_log' = Logged(list, "returned")
               /\ UNCHANGED <<pc, stored_edges, insert_edges>>
          ELSE /\ insert_edges' = list
               /\ pc' = "clear"
               /\ UNCHANGED <<stored_edges, store_log>>
    /\ UNCHANGED <<resolver_vars, build_vars, parser_vars>>

\* the clear step that deletes nothing
BulkInsertClear_keeps_prior ==
    /\ pc = "clear"
    /\ \/ /\ stored_edges' = stored_edges
          /\ pc' = "insert"
          /\ UNCHANGED <<insert_edges, store_log>>
       \/ /\ store_log' = Logged(insert_edges, "raised")
          /\ insert_edges' = <<>>
          /\ pc' = "store"
          /\ UNCHANGED stored_edges
    /\ UNCHANGED <<resolver_vars, build_vars, parser_vars>>

\* "collection.delete_many({})", or the exception of the connection re-raised
BulkInsertClear ==
    /\ pc = "clear"
    /\ \/ /\ stored_edges' = <<>>
          /\ pc' = "insert"
          /\ UNCHANGED <<insert_edges, store_log>>
       \/ /\ store_log' = Logged(insert_edges, "raised")
          /\ insert_edges' = <<>>
          /\ pc' = "store"
          /\ UNCHANGED stored_edges
    /\ UNCHANGED <<resolver_vars, build_vars, parser_vars>>

\* "collection.insert_many(edges)": every document is inserted, or the write
\* fails after the documents before the failing one and the error is re-raised
BulkInsertInsert ==
    /\ pc = "insert"
    /\ \/ /\ stored_edges' = stored_edges \o insert_edges
          /\ store_log' = Logged(insert_edges, "returned")
       \/ \E k \in 0..(Len(insert_edges) - 1) :
             /\ stored_edges' = stored_edges \o Take(insert_edges, k)
             /\ store_log' = Logged(insert_edges, "raised")
    /\ insert_edges' = <<>>
    /\ pc' = "store"
    /\ UNCHANGED <<resolver_vars, build_vars, parser_vars>>

\* an empty edges collection, then any calls of bulk_insert_edges
InitStoreCalls ==
    /\ pc = "store"
    /\ ast_data = <<>>
    /\ InitBuilder
    /\ InitResolver
    /\ InitParser
    /\ InitStore

NextStore == BulkInsertCall \/ BulkInsertClear \/ BulkInsertInsert

SpecStore == InitStoreCalls /\ [][NextStore]_vars

\* C14: after calls of bulk_insert_edges that all returned without raising, the
\* edges collection holds exactly the list given to the most recent call, also
\* when that list is empty and the collection held edges of an earlier call.
C14_FullReplace ==
    (/\ pc = "store"
     /\ store_log # <<>>
     /\ \A i \in 1..Len(store_log) : store_log[i].outcome = "returned")
        => stored_edges = store_log[Len(store_log)].edges

\* s is t cut after some of its first elements
IsPrefix(s, t) == Len(s) <= Len(t) /\ s = Take(t, Len(s))

\* C28: in a call with a non-empty list the clear comes before the insert:
\* the clear step leaves the collection as it was (on a failure) or empty, the
\* insert step starts from the empty collection and leaves the new list or,
\* on a failure, its first documents. The collection never holds prior edges
\* beside new ones, and a failure after the clear does not bring them back.
C28_ClearBeforeInsert ==
    [][/\ pc = "clear" =>
            /\ insert_edges # <<>>
            /\ \/ pc' = "insert" /\ stored_edges' = <<>>
               \/ pc' = "store" /\ stored_edges' = stored_edges
       /\ pc = "insert" =>
            /\ stored_edges = <<>>
            /\ IsPrefix(stored_edges', insert_edges)
            /\ pc' = "store"]_vars

\* C28's case: utils.py -> utils.py was stored, the next call cleared it and
\* failed after inserting the first of its two edges
C28_Witness ==
    /\ pc = "store"
    /\ Len(store_log) = 2
    /\ store_log[1] = [edges |-> <<e_utils_utils>>, outcome |-> "returned"]
    /\ store_log[2] = [edges |-> <<e_main_utils, e_utils_utils>>, outcome |-> "raised"]
    /\ stored_edges = <<e_main_utils>>

\* the repositories whose graphs go into the same database
Repositories == {"A", "B"}

\* C29: a run for repository B leaves the stored edges of repository A
\* unchanged. bulk_insert_edges is given no repository, so each call may belong
\* to any of them: whenever the last call, for B, follows a call for A and
\* both returned, the edges stored for A are still in the collection.
C29_OtherRepositoryKept ==
    \A repository \in [1..Len(store_log) -> Repositories] :
        (/\ pc = "store"
         /\ Len(store_log) >= 2
         /\ repository[Len(store_log) - 1] = "A"
         /\ repository[Len(store_log)] = "B"
         /\ store_log[Len(store_log) - 1].outcome = "returned"
         /\ store_log[Len(store_log)].outcome = "returned")
            => \A k \in 1..Len(store_log[Len(store_log) - 1].edges) :
                   \E i \in 1..Len(stored_edges) :
                       stored_edges[i] = store_log[Len(store_log) - 1].edges[k]

-----------------------------------------------------------------------------
(* resolve_import_to_file called on its own *)

\* ".b"
r_dot_b == <<".", "b">>

\* "..b"
r_dotdot_b == <<".", ".", "b">>

\* "."
r_dot == <<".">>

\* ".."
r_dotdot == <<".", ".">>

\* "pkg.sub"
r_pkg_sub == <<"p", "k", "g", ".", "s", "u", "b">>

r_dotdot_x_b == <<".", ".", "x", ".", "b">>

r_dot_sub == <<".", "s", "u", "b">>

r_g_su == <<"g", ".", "s", "u">>

r_b == <<"b">>

\* "a.py"
a_py == <<"a", ".", "p", "y">>

\* "pkg/a.py"
pkg_a_py == <<"p", "k", "g", "/", "a", ".", "p", "y">>

\* "x/pkg/a.py"
x_pkg_a_py == <<"x", "/", "p", "k", "g", "/", "a", ".", "p", "y">>

\* "pkg/b.py"
pkg_b_py == <<"p", "k", "g", "/", "b", ".", "p", "y">>

\* "x/pkg/b.py"
x_pkg_b_py == <<"x", "/", "p", "k", "g", "/", "b", ".", "p", "y">>

\* "b.py"
b_py == <<"b", ".", "p", "y">>

\* "x/b.py"
x_b_py == <<"x", "/", "b", ".", "p", "y">>

\* "x/__init__.py"
x_init_py == <<"x", "/", "_", "_", "i", "n", "i", "t", "_", "_", ".", "p", "y">>

\* "pkg/sub.py"
pkg_sub_py == <<"p", "k", "g", "/", "s", "u", "b", ".", "p", "y">>

\* "pkg/sub/__init__.py"
pkg_sub_init_py == <<"p", "k", "g", "/", "s", "u", "b", "/", "_", "_", "i", "n", "i", "t", "_", "_", ".", "p", "y">>

\* "pkg.py"
pkg_py == <<"p", "k", "g", ".", "p", "y">>

\* "sub.py"
sub_py == <<"s", "u", "b", ".", "p", "y">>

MaxFiles == 3

ResolveRefPool ==
    {r_dot_b, r_dotdot_b, r_dot, r_dotdot, r_pkg_sub, r_dotdot_x_b, r_dot_sub,
     r_g_su, r_b}

ImporterPool == {a_py, pkg_a_py, x_pkg_a_py}

FilePool ==
    {pkg_a_py, pkg_b_py, x_pkg_b_py, b_py, x_b_py, x_init_py,
     pkg_sub_py, pkg_sub_init_py, pkg_py, sub_py}

\* the known-file sets of at most MaxFiles files, in each iteration order
FileOrders ==
    UNION {Orders(S) : S \in {T \in SUBSET FilePool : Cardinality(T) <= MaxFiles}}

\* a reference, an importing file and a known-file set, about to be resolved
InitResolve ==
    /\ pc = "resolve"
    /\ import_name \in ResolveRefPool
    /\ current_file_path \in ImporterPool
    /\ all_files \in FileOrders
    /\ result = None
    /\ ast_data_list = <<>>
    /\ edges = <<>>
    /\ seen_edges = {}
    /\ doc_i = 1
    /\ imp_j = 1
    /\ resolver_calls = {}
    /\ run = "first"
    /\ prev_edges = <<>>
    /\ prev_files = <<>>
    /\ ast_data = <<>>
    /\ InitParser
    /\ InitStore

\* resolve_import_to_file runs and returns
Resolve ==
    /\ pc = "resolve"
    /\ result' = resolve_import_to_file(import_name, current_file_path, all_files)
    /\ pc' = "resolved"
    /\ UNCHANGED <<import_name, current_file_path, build_vars, parser_vars, store_vars>>

SpecResolve == InitResolve /\ [][Resolve]_vars

-----------------------------------------------------------------------------
(* Properties of resolve_import_to_file *)

\* the number of dots a reference starts with
RECURSIVE LeadingDots(_)
LeadingDots(ref) ==
    IF ref # <<>> /\ ref[1] = "." THEN 1 + LeadingDots(Tail(ref)) ELSE 0

\* the number of directory components of a repo-relative path
DirComponents(path) == Cardinality({i \in 1..Len(path) : path[i] = sep})

\* directories of depth 1 and 2
C6_Dirs == {<<"p", "k", "g">>, <<"x", "/", "p", "k", "g">>}

\* C6: with D/b.py (and D/a.py) known, ".b" from D/a.py resolves to D/b.py for
\* a directory D of depth at least 1, whatever other files are known.
C6_SiblingResolves ==
    \A D \in C6_Dirs :
        (/\ pc = "resolved"
         /\ import_name = r_dot_b
         /\ current_file_path = D \o <<sep>> \o a_py
         /\ InFiles(D \o <<sep>> \o b_py, all_files))
            => result = D \o <<sep>> \o b_py

\* C6's case: pkg/a.py, pkg/b.py and another b.py are known
C6_Witness ==
    /\ pc = "resolved"
    /\ import_name = r_dot_b
    /\ current_file_path = pkg_a_py
    /\ InFiles(pkg_a_py, all_files) /\ InFiles(pkg_b_py, all_files)
    /\ all_files[1] = b_py
    /\ result = pkg_b_py

\* C7: a relative reference with more leading dots than the importing file's
\* path has directory components is unresolved (None), for every known-file set.
C7_AscensionBound ==
    (/\ pc = "resolved"
     /\ LeadingDots(import_name) >= 1
     /\ LeadingDots(import_name) > DirComponents(current_file_path))
        => result = None

\* C7's case: "..b" from pkg/a.py while b.py at the root is known
C7_Witness ==
    /\ pc = "resolved"
    /\ import_name = r_dotdot_b
    /\ current_file_path = pkg_a_py
    /\ InFiles(b_py, all_files)
    /\ result = None

\* C8: pkg.sub resolves to pkg/sub/__init__.py when that file is known and
\* pkg/sub.py is not, whatever other files are known.
C8_PackageInit ==
    (/\ pc = "resolved"
     /\ import_name = r_pkg_sub
     /\ ~InFiles(pkg_sub_py, all_files)
     /\ InFiles(pkg_sub_init_py, all_files))
        => result = pkg_sub_init_py

\* C8's case: files named pkg.py and sub.py come first in the iteration
C8_Witness ==
    /\ pc = "resolved"
    /\ import_name = r_pkg_sub
    /\ ~InFiles(pkg_sub_py, all_files)
    /\ all_files = <<pkg_py, sub_py, pkg_sub_init_py>>
    /\ result = pkg_sub_init_py

\* C9: a reference made of dots only is unresolved (None), for every importing
\* file and every known-file set.
C9_OnlyDotsUnresolved ==
    (/\ pc = "resolved"
     /\ import_name # <<>>
     /\ \A i \in 1..Len(import_name) : import_name[i] = ".")
        => result = None

\* C19: a reference with one leading dot resolves in the importing file's own
\* directory also for a file at the repository root: ".b" from a.py gives b.py
\* when b.py is a known file.
C19_RootSibling ==
    (/\ pc = "resolved"
     /\ import_name = r_dot_b
     /\ current_file_path = a_py
     /\ InFiles(b_py, all_files))
        => result = b_py

\* the text after the last dot of a reference
LastSegment(ref) == Drop(ref, RFind(ref, "."))

\* a directory with its last n components taken off, read off the characters
RECURSIVE Ascend(_, _)
Ascend(dir, n) ==
    IF n = 0 THEN dir ELSE Ascend(Take(dir, Max({0, RFind(dir, sep) - 1})), n - 1)

\* the directory the candidates of a relative reference lie in
CandidateDir(ref, cur) ==
    Ascend(Take(cur, Max({0, RFind(cur, sep) - 1})), LeadingDots(ref) - 1)

\* C20: for a relative reference with k >= 1 leading dots and a last segment m,
\* from a file whose directory has depth at least k, the result is one of
\* <directory ascended k-1 levels>/m.py and <that directory>/m/__init__.py,
\* known, whatever lies between the dots and m; it is None exactly when
\* neither of the two is a known file.
C20_RelativeCandidates ==
    (/\ pc = "resolved"
     /\ LeadingDots(import_name) >= 1
     /\ LastSegment(import_name) # <<>>
     /\ DirComponents(current_file_path) >= LeadingDots(import_name))
        => LET D == CandidateDir(import_name, current_file_path)
               m == LastSegment(import_name)
               module_file == D \o <<sep>> \o m \o dot_py
               package_file == D \o <<sep>> \o m \o <<sep>> \o init_py
           IN  /\ result \in {module_file, package_file, None}
               /\ result # None => InFiles(result, all_files)
               /\ result = None <=>
                      (~InFiles(module_file, all_files)
                          /\ ~InFiles(package_file, all_files))

\* C20's case: "..x.b" from x/pkg/a.py gives x/b.py, although no x/x.py and
\* no x/x/b.py is known
C20_Witness ==
    /\ pc = "resolved"
    /\ import_name = r_dotdot_x_b
    /\ current_file_path = x_pkg_a_py
    /\ result = x_b_py

\* an absolute reference with every dot turned into a path separator
Slashed(ref) == [i \in 1..Len(ref) |-> IF ref[i] = "." THEN sep ELSE ref[i]]

\* the reference is absolute / is relative with a last segment and a
\* directory deep enough for its dots
IsAbsolute(ref) == ref # <<>> /\ ref[1] # "."

IsRelativeWithin(ref, cur) ==
    /\ LeadingDots(ref) >= 1
    /\ LastSegment(ref) # <<>>
    /\ DirComponents(cur) >= LeadingDots(ref)

\* <path> of the claim: what .py and /__init__.py are appended to
CandidateStem(ref, cur) ==
    IF IsAbsolute(ref) THEN Slashed(ref)
    ELSE CandidateDir(ref, cur) \o <<sep>> \o LastSegment(ref)

\* C21: in the relative branch and in the absolute exact-match step, when
\* <path>.py and <path>/__init__.py are both known the result is <path>.py;
\* <path>/__init__.py is the result only when <path>.py is not a known file.
C21_ModuleBeforePackage ==
    (/\ pc = "resolved"
     /\ IsAbsolute(import_name) \/ IsRelativeWithin(import_name, current_file_path))
        => LET stem == CandidateStem(import_name, current_file_path)
               module_file == stem \o dot_py
               package_file == stem \o <<sep>> \o init_py
           IN  /\ (InFiles(module_file, all_files) /\ InFiles(package_file, all_files))
                      => result = module_file
               /\ result = package_file => ~InFiles(module_file, all_files)

\* C21's case in the relative branch: ".sub" from pkg/a.py, the package file
\* coming first in the iteration of the set
C21_Witness ==
    /\ pc = "resolved"
    /\ import_name = r_dot_sub
    /\ current_file_path = pkg_a_py
    /\ InFiles(pkg_sub_py, all_files)
    /\ all_files[1] = pkg_sub_init_py
    /\ result = pkg_sub_py

\* C22: for an absolute reference, when <dotted path>.py or
\* <dotted path>/__init__.py is a known file the result is that file (the
\* module file when both are known), however many known files are named like
\* the first or the last segment and in whatever order the set iterates.
C22_ExactMatchWins ==
    (/\ pc = "resolved"
     /\ IsAbsolute(import_name))
        => LET module_file == Slashed(import_name) \o dot_py
               package_file == Slashed(import_name) \o <<sep>> \o init_py
           IN  /\ InFiles(module_file, all_files) => result = module_file
               /\ (~InFiles(module_file, all_files) /\ InFiles(package_file, all_files))
                      => result = package_file

\* C22's case: pkg.py and sub.py are known and iterate before pkg/sub.py
C22_Witness ==
    /\ pc = "resolved"
    /\ import_name = r_pkg_sub
    /\ all_files = <<pkg_py, sub_py, pkg_sub_py>>
    /\ result = pkg_sub_py

\* a file's name without its directory and its extension
Stem(path) ==
    LET name == Drop(path, RFind(path, sep))
    IN  IF RFind(name, ".") > 1 THEN Take(name, RFind(name, ".") - 1) ELSE name

\* the known files whose name without extension is the segment
NamedLike(files, segment) == {files[i] : i \in {k \in 1..Len(files) : Stem(files[k]) = segment}}

\* an absolute reference of several segments without an exact match
NoExactMatch(ref, files) ==
    /\ IsAbsolute(ref)
    /\ \E i \in 1..Len(ref) : ref[i] = "."
    /\ ~InFiles(Slashed(ref) \o dot_py, files)
    /\ ~InFiles(Slashed(ref) \o <<sep>> \o init_py, files)

\* C23: for an absolute reference of several segments without an exact match,
\* when a known file is named like the first segment the result is such a
\* file, also when another known file is named like the last segment; a file
\* named like the last segment is the result only when none is named like
\* the first.
C23_FirstSegmentBeforeLast ==
    (/\ pc = "resolved"
     /\ NoExactMatch(import_name, all_files))
        => LET F == NamedLike(all_files, FirstSegment(import_name))
               L == NamedLike(all_files, LastSegment(import_name))
           IN  /\ F # {} => result \in F
               /\ (F = {} /\ L # {}) => result \in L
               /\ result \in L \ F => F = {}

\* C23's case: sub.py iterates before pkg.py and "pkg.sub" still gives pkg.py
C23_Witness ==
    /\ pc = "resolved"
    /\ import_name = r_pkg_sub
    /\ all_files = <<sub_py, pkg_py>>
    /\ result = pkg_py

\* the components of a path without its extension
PathComponents(path) ==
    LET name == Drop(path, RFind(path, sep))
        cut == IF RFind(name, ".") > 1 THEN Len(name) - RFind(name, ".") + 1 ELSE 0
    IN  split(Take(path, Len(path) - cut), sep)

\* the segments appear in the path as consecutive whole components
WholeComponents(ref, path) ==
    LET segs == split(ref, ".")
        comps == PathComponents(path)
    IN  \E off \in 0..(Len(comps) - Len(segs)) :
            \A k \in 1..Len(segs) : comps[off + k] = segs[k]

\* the resolution reaches the last fallback: no exact match and no file named
\* like the first or the last segment
ReachesPathScan(ref, files) ==
    /\ NoExactMatch(ref, files)
    /\ NamedLike(files, FirstSegment(ref)) = {}
    /\ NamedLike(files, LastSegment(ref)) = {}

\* C24: a file returned by the final suffix/substring fallback holds the
\* segments of the reference as consecutive whole path components; a file in
\* which the slash-joined reference only lies inside longer component names
\* is not returned.
C24_WholeComponentsOnly ==
    (/\ pc = "resolved"
     /\ ReachesPathScan(import_name, all_files)
     /\ result # None)
        => WholeComponents(import_name, result)

\* the known files that match a step of the fallback
StepMatches(ref, files) ==
    LET parts == split(ref, ".")
    IN  << {f \in {files[i] : i \in 1..Len(files)} : NameMatches(f, parts[1])},
           {f \in {files[i] : i \in 1..Len(files)} :
                Len(parts) > 1 /\ NameMatches(f, parts[Len(parts)])},
           {f \in {files[i] : i \in 1..Len(files)} :
                Len(parts) > 1 /\ PathMatches(f, parts)} >>

\* one iteration order of a set, the same one for the same set
RECURSIVE ReferenceOrder(_)
ReferenceOrder(S) ==
    IF S = {} THEN <<>>
    ELSE LET x == CHOOSE y \in S : TRUE
         IN  <<x>> \o ReferenceOrder(S \ {x})

\* C25: when two iteration orders of the same known-file set give different
\* results for the same reference and importing file, the reference is
\* absolute, has no exact match and at least two known files match one step
\* of the fallback; otherwise the result is the same in every order. Every
\* order of every set is a state here, and of two orders that differ in
\* their result one differs from the reference order of the set.
C25_DeterministicButTieBreak ==
    pc = "resolved" =>
        LET known == {all_files[i] : i \in 1..Len(all_files)}
        IN  resolve_import_to_file(import_name, current_file_path,
                                   ReferenceOrder(known)) # result
                => /\ IsAbsolute(import_name)
                   /\ ~InFiles(Slashed(import_name) \o dot_py, all_files)
                   /\ ~InFiles(Slashed(import_name) \o <<sep>> \o init_py, all_files)
                   /\ \E s \in 1..3 :
                         Cardinality(StepMatches(import_name, all_files)[s]) >= 2

\* C25's case: "b" with pkg/b.py and x/b.py known and no b.py: the result is
\* pkg/b.py in this order and x/b.py in the other one
C25_Witness ==
    /\ pc = "resolved"
    /\ import_name = r_b
    /\ all_files = <<pkg_b_py, x_b_py>>
    /\ result = pkg_b_py
    /\ resolve_import_to_file(import_name, current_file_path, <<x_b_py, pkg_b_py>>) = x_b_py

-----------------------------------------------------------------------------
(* ast_parser, then graph_constructor's main *)

\* the directory the repository was cloned into: "./r"
repo_path == <<".", "/", "r">>

\* "helper"
n_helper == <<"h", "e", "l", "p", "e", "r">>

\* os.path.relpath(path, start) for a file found under start
relpath(path, start) ==
    IF startswith(path, start \o <<sep>>) THEN Drop(path, Len(start) + 1) ELSE path

\* ast.Import: "import a, b"
Import(names) == [type |-> "Import", names |-> names]

\* ast.ImportFrom: "from module import a, b" with its relative level; module
\* is None for "from . import a"
ImportFrom(module, names, level) ==
    [type |-> "ImportFrom", module |-> module, names |-> names, level |-> level]

\* a file that cannot be read, one that does not parse, one with statements
Unreadable == [kind |-> "unreadable"]

SyntaxError == [kind |-> "syntax_error"]

Module(body) == [kind |-> "module", body |-> body]

\* the statement that records only the first of its names
StatementImports_first_name_only(n) ==
    IF n.type = "Import" THEN <<n.names[1]>>
    ELSE IF n.module # None /\ n.module # <<>>
         THEN <<n.module \o <<".">> \o n.names[1]>>
         ELSE <<>>

\* the references one statement adds to imports
StatementImports(n) ==
    IF n.type = "Import" THEN n.names
    ELSE IF n.module # None /\ n.module # <<>>
         THEN [k \in 1..Len(n.names) |-> n.module \o <<".">> \o n.names[k]]
         ELSE <<>>

\* the loop over the statements ast.walk yields
RECURSIVE ExtractImports(_)
ExtractImports(body) ==
    IF body = <<>> THEN <<>>
    ELSE StatementImports(body[1]) \o ExtractImports(Tail(body))

\* parse_ast_file returns a dictionary and not None
Parses(file) == file.content.kind = "module"

\* the dictionary parse_ast_file returns (functions, classes and raw_code,
\* which nothing below reads, are left out)
parse_ast_file(file) ==
    [filename |-> basename(file.path),
     filepath |-> file.path,
     imports |-> ExtractImports(file.content.body)]

\* the number of statements in the files of a list
RECURSIVE TotalStatements(_)
TotalStatements(files) ==
    IF files = <<>> THEN 0
    ELSE (IF Parses(files[1]) THEN Len(files[1].content.body) ELSE 0)
            + TotalStatements(Tail(files))

MaxPyFiles == 2

MaxStmts == 2

\* the files a repository may hold, as find_python_files names them
PyPathPool == {join2(repo_path, p) : p \in {app_main_py, app_utils_py, lib_utils_py}}

StmtPool ==
    { Import(<<r_os>>),
      Import(<<r_app_utils>>),
      ImportFrom(r_app_utils, <<n_helper>>, 0) }

\* what a file may hold, with at most b statements
ContentPool(b) ==
    {Unreadable, SyntaxError} \cup
    UNION {{Module(body) : body \in [1..k -> StmtPool]} : k \in 0..b}

\* find_python_files meets one more .py file
FindPythonFile ==
    /\ pc = "find"
    /\ Len(python_files) < MaxPyFiles
    /\ \E path \in PyPathPool :
          /\ \A k \in 1..Len(python_files) : python_files[k].path # path
          /\ \E content \in ContentPool(MaxStmts - TotalStatements(python_files)) :
                python_files' = Append(python_files, [path |-> path, content |-> content])
    /\ UNCHANGED <<pc, resolver_vars, build_vars, file_i, successful, failed, ast_data,
                   store_vars>>

\* find_python_files returns and the loop over the files starts
StartParsing ==
    /\ pc = "find"
    /\ pc' = "parse"
    /\ UNCHANGED <<resolver_vars, build_vars, parser_vars, store_vars>>

\* the loop that ends at the first file that gives no inventory
ParseFile_stops_on_failure ==
    /\ pc = "parse"
    /\ file_i <= Len(python_files)
    /\ LET py_file == python_files[file_i]
       IN  IF Parses(py_file)
           THEN \/ /\ ast_data' =
                        Append(ast_data,
                               [parse_ast_file(py_file) EXCEPT
                                   !.filepath = relpath(py_file.path, repo_path)])
                   /\ successful' = successful + 1
                   /\ failed' = failed
                   /\ file_i' = file_i + 1
                \/ /\ failed' = failed + 1
                   /\ file_i' = Len(python_files) + 1
                   /\ UNCHANGED <<ast_data, successful>>
           ELSE /\ failed' = failed + 1
                /\ file_i' = Len(python_files) + 1
                /\ UNCHANGED <<ast_data, successful>>
    /\ UNCHANGED <<pc, resolver_vars, build_vars, python_files, store_vars>>

\* one pass of ast_parser's loop: parse the file, store its inventory
ParseFile ==
    /\ pc = "parse"
    /\ file_i <= Len(python_files)
    /\ LET py_file == python_files[file_i]
       IN  IF Parses(py_file)
           THEN \/ /\ ast_data' =
                        Append(ast_data,
                               [parse_ast_file(py_file) EXCEPT
                                   !.filepath = relpath(py_file.path, repo_path)])
                   /\ successful' = successful + 1
                   /\ failed' = failed
                \* store_in_mongodb raises: "except Exception: failed += 1"
                \/ /\ failed' = failed + 1
                   /\ UNCHANGED <<ast_data, successful>>
           ELSE /\ failed' = failed + 1
                /\ UNCHANGED <<ast_data, successful>>
    /\ file_i' = file_i + 1
    /\ UNCHANGED <<pc, resolver_vars, build_vars, python_files, store_vars>>

\* graph_constructor's main, run after ast_parser: it fetches the stored
\* inventories and exits when there are none
Fetch ==
    /\ pc = "parse"
    /\ file_i > Len(python_files)
    /\ ast_data_list' = ast_data
    /\ pc' = IF ast_data = <<>> THEN "exit" ELSE "build"
    /\ UNCHANGED <<all_files, edges, seen_edges, doc_i, imp_j, resolver_calls,
                   run, prev_edges, prev_files, resolver_vars, parser_vars, store_vars>>

\* graph_constructor's main calls bulk_insert_edges on the list it built; an
\* empty list makes the call return at once
MainInsert ==
    /\ pc = "built"
    /\ IF edges = <<>>
       THEN /\ store_log' = Logged(edges, "returned")
            /\ pc' = "store"
            /\ UNCHANGED <<stored_edges, insert_edges>>
       ELSE /\ insert_edges' = edges
            /\ pc' = "clear"
            /\ UNCHANGED <<stored_edges, store_log>>
    /\ UNCHANGED <<resolver_vars, build_vars, parser_vars>>

\* the main that reports completion whatever the call did
MainCompleted_whatever_happened ==
    /\ pc = "store"
    /\ store_log # <<>>
    /\ pc' = "completed"
    /\ UNCHANGED <<resolver_vars, build_vars, parser_vars, store_vars>>

\* the call returned: "Graph construction completed!"
MainCompleted ==
    /\ pc = "store"
    /\ store_log # <<>>
    /\ store_log[Len(store_log)].outcome = "returned"
    /\ pc' = "completed"
    /\ UNCHANGED <<resolver_vars, build_vars, parser_vars, store_vars>>

\* the call raised: the exception leaves main before the last print
MainAborted ==
    /\ pc = "store"
    /\ store_log # <<>>
    /\ store_log[Len(store_log)].outcome = "raised"
    /\ pc' = "aborted"
    /\ UNCHANGED <<resolver_vars, build_vars, parser_vars, store_vars>>

\* the caller gives the computed list to bulk_insert_edges once more
RetryInsert ==
    /\ pc = "aborted"
    /\ Len(store_log) < MaxCalls
    /\ insert_edges' = edges
    /\ pc' = "clear"
    /\ UNCHANGED <<stored_edges, store_log, resolver_vars, build_vars, parser_vars>>

Init ==
    /\ pc = "find"
    /\ ast_data = <<>>
    /\ InitBuilder
    /\ InitResolver
    /\ InitParser
    /\ InitStore

Next ==
    \/ FindPythonFile \/ StartParsing \/ ParseFile \/ Fetch
    \/ BuildStart \/ BuildStep \/ BuildReturn
    \/ MainInsert \/ BulkInsertClear \/ BulkInsertInsert
    \/ MainCompleted \/ MainAborted \/ RetryInsert

Spec == Init /\ [][Next]_vars

\* parse_ast_file on one file holding statements with one or two names
n_utils == <<"u", "t", "i", "l", "s">>

NamesPool == {<<n_helper>>, <<n_helper, n_utils>>}

ParseStmtPool ==
    {Import(<<r_os>>), Import(<<r_app_utils, r_os>>)}
        \cup {ImportFrom(r_app_utils, names, 0) : names \in NamesPool}
        \cup {ImportFrom(r_utils, names, 1) : names \in NamesPool}
        \cup {ImportFrom(None, names, 1) : names \in NamesPool}

ParseContentPool ==
    {Unreadable, SyntaxError} \cup
    UNION {{Module(body) : body \in [1..k -> ParseStmtPool]} : k \in 0..MaxStmts}

InitParse ==
    /\ pc = "parse"
    /\ \E path \in PyPathPool, content \in ParseContentPool :
          python_files = <<[path |-> path, content |-> content]>>
    /\ file_i = 1
    /\ successful = 0
    /\ failed = 0
    /\ ast_data = <<>>
    /\ InitBuilder
    /\ InitResolver
    /\ InitStore

SpecParse == InitParse /\ [][ParseFile]_vars

-----------------------------------------------------------------------------
(* Properties of the two programs run one after the other *)

\* C10: when a file A holds "from app.utils import helper" and its inventory
\* was stored, app/utils.py is a known file and A is another file, the output
\* holds the edge (basename(A), utils.py).
C10_FromImportGivesEdge ==
    pc = "built" =>
        \A i \in 1..Len(python_files) :
            (/\ Parses(python_files[i])
             /\ \E k \in 1..Len(python_files[i].content.body) :
                    python_files[i].content.body[k] = ImportFrom(r_app_utils, <<n_helper>>, 0)
             /\ \E d \in 1..Len(ast_data_list) :
                    DocPath(ast_data_list[d]) = relpath(python_files[i].path, repo_path)
             /\ InFiles(app_utils_py, all_files)
             /\ python_files[i].path # join2(repo_path, app_utils_py))
                => \E e \in 1..Len(edges) :
                       /\ edges[e].source = basename(python_files[i].path)
                       /\ edges[e].target = utils_py

\* the statements the claim speaks of: "import a, b" and "from m import x, y"
NamesModule(n) == n.type = "Import" \/ n.module # None

\* one reference per imported name: the name itself, or m.name
RECURSIVE OnePerName(_)
OnePerName(body) ==
    IF body = <<>> THEN <<>>
    ELSE LET n == body[Len(body)]
             front == OnePerName(Take(body, Len(body) - 1))
         IN  front \o [k \in 1..Len(n.names) |->
                          IF n.type = "Import" THEN n.names[k]
                          ELSE n.module \o <<".">> \o n.names[k]]

\* C15: parse_ast_file records one reference per imported name, a and b for
\* "import a, b", m.x and m.y for "from m import x, y", and no other
\* reference for those statements.
C15_OneReferencePerName ==
    \A d \in 1..Len(ast_data) :
        \A i \in 1..Len(python_files) :
            (/\ ast_data[d].filepath = relpath(python_files[i].path, repo_path)
             /\ Parses(python_files[i])
             /\ \A k \in 1..Len(python_files[i].content.body) :
                    NamesModule(python_files[i].content.body[k]))
                => ast_data[d].imports = OnePerName(python_files[i].content.body)

\* C15's case: a file with "import app.utils, os" and
\* "from app.utils import helper, utils" was parsed
C15_Witness ==
    /\ Len(ast_data) = 1
    /\ python_files[1].content =
           Module(<<Import(<<r_app_utils, r_os>>),
                    ImportFrom(r_app_utils, <<n_helper, n_utils>>, 0)>>)
    /\ ast_data[1].imports =
           <<r_app_utils, r_os, r_app_utils \o <<".">> \o n_helper,
             r_app_utils \o <<".">> \o n_utils>>

\* the complete inventory of a file, as ast_parser stores it
Stored(file) ==
    [filename |-> basename(file.path),
     filepath |-> relpath(file.path, repo_path),
     imports |-> ExtractImports(file.content.body)]

Dots(k) == [i \in 1..k |-> "."]

\* C30: parse_ast_file records a relative import as written: for a
\* from-import of level k >= 1 the inventory holds a reference that starts
\* with k dots followed by the module, also for "from . import b", which has
\* no module.
C30_RelativeImportsKeepDots ==
    \A d \in 1..Len(ast_data) :
        \A i \in 1..Len(python_files) :
            (/\ ast_data[d].filepath = relpath(python_files[i].path, repo_path)
             /\ Parses(python_files[i]))
                => \A k \in 1..Len(python_files[i].content.body) :
                       LET n == python_files[i].content.body[k]
                           written == Dots(n.level)
                                        \o (IF n.module = None THEN <<>> ELSE n.module)
                       IN  (n.type = "ImportFrom" /\ n.level >= 1) =>
                               \E r \in 1..Len(ast_data[d].imports) :
                                   /\ Len(ast_data[d].imports[r]) >= Len(written)
                                   /\ Take(ast_data[d].imports[r], Len(written)) = written

\* the last call of bulk_insert_edges, and the one before it
LastCall == store_log[Len(store_log)]

CallBefore == store_log[Len(store_log) - 1]

\* main does not report completion after a failure, and a repeated call that
\* returns holds exactly its list
AfterFailure ==
    /\ pc = "completed" => LastCall.outcome = "returned"
    /\ pc = "aborted" => LastCall.outcome = "raised"
    /\ (/\ pc \in {"store", "completed"}
        /\ Len(store_log) >= 2
        /\ CallBefore.outcome = "raised"
        /\ LastCall.outcome = "returned"
        /\ LastCall.edges = CallBefore.edges
        /\ LastCall.edges # <<>>)
            => stored_edges = LastCall.edges

\* no step at or after the call of bulk_insert_edges changes the computed list
ComputedListKept ==
    pc \in {"built", "clear", "insert", "store", "completed", "aborted"}
        => edges' = edges

====
